---- MODULE Spec2Model ----
(***************************************************************************)
(* Model of extensions/emmet/src/abbreviationActions.ts: the Emmet         *)
(* "expand abbreviation" / "wrap with abbreviation" commands.              *)
(*                                                                         *)
(*   SpecValid  isValidLocationForEmmetAbbreviation as a pure function of  *)
(*              (currentNode, syntax, position).                           *)
(*   Spec       the expandAbbreviation command: the per-selection loop,    *)
(*              expandAbbreviationInRange / expandAbbr, and the            *)
(*              asynchronous completion of the editor.insertSnippet calls. *)
(*   SpecLoop   the loop of the same command over the selections, with a   *)
(*              record of every cursor visited.                            *)
(***************************************************************************)
EXTENDS Integers, Sequences, FiniteSets, TLC

\* ------------------------------------------------------------------ bounds
\* Lines 0..MaxLine and columns 0..MaxCol of the positions handed to the
\* location validator.
MaxLine == 1
MaxCol == 2

\* The most selections (cursors) the editor holds when a command runs.
MaxSel == 3

\* The most selections when every pass of the loop is recorded (SpecLoop).
MaxTraced == 2

\* ------------------------------------------------------- vscode.Position
Pos(l, c) == [line |-> l, character |-> c]

Positions == {Pos(l, c) : l \in 0..MaxLine, c \in 0..MaxCol}

\* Position.isBefore / isBeforeOrEqual / isAfter, as position.isAfter(...)
\* is used at line 143: line first, then character, strict.
IsBefore(p, q) ==
    \/ p.line < q.line
    \/ p.line = q.line /\ p.character < q.character

IsBeforeOrEqual(p, q) == p = q \/ IsBefore(p, q)

IsAfter(p, q) == IsBefore(q, p)

\* vscode.Range(start, end)
Rng(s, e) == [start |-> s, end |-> e]

\* Range.contains(position), as used at line 148: both ends included.
RangeContains(r, p) == IsBeforeOrEqual(r.start, p) /\ IsBeforeOrEqual(p, r.end)

\* ------------------------------------------------------------ EmmetNode
\* A token is absent (undefined) or spans start..end, start <= end.
NoToken == [present |-> FALSE, start |-> Pos(0, 0), end |-> Pos(0, 0)]

Tokens ==
    {[present |-> TRUE, start |-> s, end |-> e] :
        <<s, e>> \in {se \in Positions \X Positions : IsBeforeOrEqual(se[1], se[2])}}

\* currentNode === undefined / null
NoNode ==
    [present |-> FALSE, type |-> "none", parent |-> "none",
     selectorToken |-> NoToken, open |-> NoToken, close |-> NoToken]

\* Stylesheet nodes (Rule and the other node types of the css parser).
\* parent is the type of the parent node, "none" when there is no parent.
CssNodes ==
    [present : {TRUE}, type : {"rule", "property"},
     parent : {"none", "rule", "at-rule"},
     selectorToken : Tokens \cup {NoToken},
     open : {NoToken}, close : {NoToken}]

\* Markup nodes (HtmlNode): an open tag and, unless the element is unclosed
\* or self-closing, a close tag that starts at or after the open tag's end.
HtmlNodes ==
    {n \in [present : {TRUE}, type : {"tag"}, parent : {"none", "tag"},
            selectorToken : {NoToken},
            open : {t \in Tokens : t.start # t.end},
            close : {t \in Tokens : t.start # t.end} \cup {NoToken}] :
        n.close.present => IsBeforeOrEqual(n.open.end, n.close.start)}

Nodes == {NoNode} \cup CssNodes \cup HtmlNodes

\* ---------------------------------------------------------------- syntax
Syntaxes == {"html", "css", "scss"}

\* isStyleSheet of vscode-emmet-helper, as called at lines 125 and 128.
IsStyleSheet(syntax) == syntax \in {"css", "scss", "sass", "less", "stylus"}

\* getInnerRange(currentHtmlNode) of ./util, as called at line 148: the span
\* between the end of the open tag and the start of the close tag.
GetInnerRange(node) == Rng(node.open.end, node.close.start)

\* NoNodeValid with the negation lost.
NoNodeValidSameAsStyleSheet(syntax) == IsStyleSheet(syntax)

\* Line 125: the answer when no node encloses the position.
NoNodeValid(syntax) == ~IsStyleSheet(syntax)

\* NestedMultiLineSelector with the line comparison inverted (=== for !==).
NestedSingleLineSelector(currentCssNode) ==
    /\ currentCssNode.parent # "none"
    /\ currentCssNode.parent = "rule"
    /\ currentCssNode.selectorToken.present
    /\ currentCssNode.selectorToken.start.line
           = currentCssNode.selectorToken.end.line

\* Lines 135-138: the workaround for a nested rule whose selector wraps lines.
NestedMultiLineSelector(currentCssNode) ==
    /\ currentCssNode.parent # "none"
    /\ currentCssNode.parent = "rule"
    /\ currentCssNode.selectorToken.present
    /\ currentCssNode.selectorToken.start.line
           # currentCssNode.selectorToken.end.line

\* AfterSelector with isAfterOrEqual for isAfter.
AfterOrAtSelector(currentCssNode, position) ==
    /\ currentCssNode.selectorToken.present
    /\ ~IsBefore(position, currentCssNode.selectorToken.end)

\* Line 143: the position is after the `{` that starts the rule's contents.
\* (undefined, when selectorToken is undefined, counts as false: the caller
\* only negates the value.)
AfterSelector(currentCssNode, position) ==
    /\ currentCssNode.selectorToken.present
    /\ IsAfter(position, currentCssNode.selectorToken.end)

\* HtmlNodeValid testing the whole element instead of its inner range.
HtmlNodeValidWholeElement(currentHtmlNode, position) ==
    IF currentHtmlNode.close.present
    THEN RangeContains(Rng(currentHtmlNode.open.start, currentHtmlNode.close.end),
                       position)
    ELSE FALSE

\* Lines 146-151: markup nodes.
HtmlNodeValid(currentHtmlNode, position) ==
    IF currentHtmlNode.close.present
    THEN RangeContains(GetInnerRange(currentHtmlNode), position)
    ELSE FALSE

\* isValidLocationForEmmetAbbreviation(currentNode, syntax, position).
IsValidLocationForEmmetAbbreviation(currentNode, syntax, position) ==
    IF ~currentNode.present
    THEN NoNodeValid(syntax)
    ELSE IF IsStyleSheet(syntax)
    THEN IF currentNode.type # "rule"
         THEN TRUE
         ELSE IF NestedMultiLineSelector(currentNode)
         THEN TRUE
         ELSE AfterSelector(currentNode, position)
    ELSE HtmlNodeValid(currentNode, position)

\* ------------------------------------------------------- vscode.TextDocument
\* A document is a sequence of lines, a line a sequence of characters.
\* Documents the command is run on: a line holding an unclosed tag, and a line
\* holding the same word twice over.
Docs == { << <<"<", "a">> >>,
          << <<"a", "a">> >> }

\* Documents getAbbreviation is called on by itself: two lines, with an
\* unclosed tag of one or two letters, a '<' alone, and characters that are
\* neither.
LocateDocs == { << <<"<", "a", "a">>, <<"a", "<", "a">> >>,
                << <<"<", "-", "a">>, <<"a", "a", "<">> >> }

\* \w of the regular expression at line 80, over the characters of Docs and
\* LocateDocs.
WordChars == {"a"}

\* document.lineAt(line).text
LineAt(doc, line) == doc[line + 1]

DocPositions(doc) ==
    UNION {{Pos(l, c) : c \in 0..Len(doc[l + 1])} : l \in 0..(Len(doc) - 1)}

RECURSIVE FlatText(_)
\* The text of the lines joined by line breaks.
FlatText(doc) ==
    IF Len(doc) = 0 THEN <<>>
    ELSE IF Len(doc) = 1 THEN doc[1]
    ELSE doc[1] \o <<"\n">> \o FlatText(Tail(doc))

RECURSIVE OffsetAt(_, _)
\* document.offsetAt(position)
OffsetAt(doc, p) ==
    IF p.line = 0 THEN p.character
    ELSE Len(doc[1]) + 1 + OffsetAt(Tail(doc), Pos(p.line - 1, p.character))

\* document.getText(range), line 70
GetText(doc, range) ==
    SubSeq(FlatText(doc), OffsetAt(doc, range.start) + 1, OffsetAt(doc, range.end))

\* Range.isEmpty (line 71) and Range.isSingleLine (line 202)
IsEmpty(range) == range.start = range.end

IsSingleLine(range) == range.start.line = range.end.line

\* vscode.Selection: anchor and active; start/end are the two in order and
\* isReversed tells that the anchor is the later one.
Sel(anchor, active) == [anchor |-> anchor, active |-> active]

SelStart(sel) == IF IsBefore(sel.active, sel.anchor) THEN sel.active ELSE sel.anchor

SelEnd(sel) == IF IsBefore(sel.active, sel.anchor) THEN sel.anchor ELSE sel.active

IsReversed(sel) == IsBefore(sel.active, sel.anchor)

SelRange(sel) == Rng(SelStart(sel), SelEnd(sel))

Selections(doc) == {Sel(a, b) : <<a, b>> \in DocPositions(doc) \X DocPositions(doc)}

RECURSIVE TrailingWordRun(_)
\* Length of the longest run of word characters that ends the text.
TrailingWordRun(text) ==
    IF Len(text) = 0 \/ text[Len(text)] \notin WordChars THEN 0
    ELSE 1 + TrailingWordRun(SubSeq(text, 1, Len(text) - 1))

\* textTillPosition.match(/<(\w+)$/), line 80: the captured word, or <<>> when
\* there is no match.
MatchOpenTag(textTillPosition) ==
    LET n == TrailingWordRun(textTillPosition)
        len == Len(textTillPosition)
    IN IF n >= 1 /\ len > n /\ textTillPosition[len - n] = "<"
       THEN SubSeq(textTillPosition, len - n + 1, len)
       ELSE <<>>

\* What getAbbreviation returns: [rangeToReplace, abbreviation], or nothing
\* when extractAbbreviation returned nothing.
Located(range, abbreviation) ==
    [found |-> TRUE, rangeToReplace |-> range, abbreviation |-> abbreviation]

NotLocated ==
    [found |-> FALSE, rangeToReplace |-> Rng(Pos(0, 0), Pos(0, 0)), abbreviation |-> <<>>]

\* extractAbbreviation(document, position) of vscode-emmet-helper, line 87:
\* nothing, or a range on the position's line that ends at the position,
\* with the text it holds.
ExtractAbbreviationResults(doc, position) ==
    {NotLocated} \cup
    {Located(Rng(Pos(position.line, c), position),
             GetText(doc, Rng(Pos(position.line, c), position))) :
        c \in 0..position.character}

\* GetAbbreviation whose range for an unclosed tag starts at the word, not
\* at the '<' before it.
GetAbbreviationWordOnly(doc, selection, position, isHtml, extracted) ==
    LET rangeToReplace == SelRange(selection)
        abbreviation == GetText(doc, rangeToReplace)
        textTillPosition == SubSeq(LineAt(doc, position.line), 1, position.character)
        matches == MatchOpenTag(textTillPosition)
    IN IF ~IsEmpty(rangeToReplace)
       THEN Located(rangeToReplace, abbreviation)
       ELSE IF isHtml /\ matches # <<>>
       THEN Located(Rng(Pos(position.line, position.character - Len(matches)),
                        position),
                    matches)
       ELSE extracted

\* getAbbreviation(document, selection, position, isHtml), lines 68-88;
\* extracted is what extractAbbreviation returns at line 87.
GetAbbreviation(doc, selection, position, isHtml, extracted) ==
    LET rangeToReplace == SelRange(selection)
        abbreviation == GetText(doc, rangeToReplace)
        textTillPosition == SubSeq(LineAt(doc, position.line), 1, position.character)
        matches == MatchOpenTag(textTillPosition)
    IN IF ~IsEmpty(rangeToReplace)
       THEN Located(rangeToReplace, abbreviation)
       ELSE IF isHtml /\ matches # <<>>
       THEN Located(Rng(Pos(position.line, position.character - (Len(matches) + 1)),
                        position),
                    matches)
       ELSE extracted

\* ------------------------------------------------------- getSyntaxFromArgs
\* Language identifiers; "" stands for undefined.
Languages == {"html", "css", "php"}

\* emmetModes of vscode-emmet-helper.
EmmetModes == {"html", "pug", "slim", "haml", "xml", "xsl", "jsx",
               "css", "scss", "sass", "less", "stylus"}

\* The args of a command: undefined, or an object with optional language and
\* parentMode.
NoArgs == [isObject |-> FALSE, language |-> "", parentMode |-> ""]

ArgsChoices ==
    {NoArgs} \cup
    [isObject : {TRUE}, language : Languages \cup {""}, parentMode : Languages \cup {""}]

\* getMappingForIncludedLanguages() of ./util, line 230: language -> dialect,
\* "" where the table has no entry.
NoMapping == [l \in Languages |-> ""]

MappedModesChoices ==
    {NoMapping,
     [NoMapping EXCEPT !["php"] = "html"],
     [NoMapping EXCEPT !["php"] = "css"],
     [NoMapping EXCEPT !["html"] = "css"]}

\* mappedModes[x] ? mappedModes[x] : x, lines 234 and 239
Mapped(mappedModes, language) ==
    IF language \in DOMAIN mappedModes /\ mappedModes[language] # ""
    THEN mappedModes[language]
    ELSE language

\* getEmmetMode(language, excludedLanguages) of vscode-emmet-helper.
GetEmmetMode(language, excludedLanguages) ==
    IF language = "" \/ language \in excludedLanguages THEN ""
    ELSE IF language \in EmmetModes THEN language
    ELSE ""

\* GetSyntaxFromArgs whose fallback looks the parent up without the mapping
\* table.
GetSyntaxFromArgsParentUnmapped(args, languageId, mappedModes, excludedLanguages) ==
    LET language == IF ~args.isObject \/ args.language = ""
                    THEN languageId ELSE args.language
        parentMode == IF args.isObject THEN args.parentMode ELSE ""
        syntax == GetEmmetMode(Mapped(mappedModes, language), excludedLanguages)
    IN IF syntax # "" THEN syntax
       ELSE GetEmmetMode(parentMode, excludedLanguages)

\* getSyntaxFromArgs(args), lines 231-239, with an active editor whose
\* document has language languageId.
GetSyntaxFromArgs(args, languageId, mappedModes, excludedLanguages) ==
    LET language == IF ~args.isObject \/ args.language = ""
                    THEN languageId ELSE args.language
        parentMode == IF args.isObject THEN args.parentMode ELSE ""
        syntax == GetEmmetMode(Mapped(mappedModes, language), excludedLanguages)
    IN IF syntax # "" THEN syntax
       ELSE GetEmmetMode(Mapped(mappedModes, parentMode), excludedLanguages)

\* ------------------------------------------------------------- expandAbbr
\* What expand(abbreviation, options) does at line 208: it raises, or returns
\* the empty string or text; of a text that wraps (the only one line 211
\* looks into) also whether it is on one line or has line breaks.
EngineOutcomes(textToWrap) ==
    IF textToWrap THEN {"raise", "empty", "line", "lines"}
    ELSE {"raise", "empty", "text"}

\* ExpandAbbreviationInput, lines 12-17; textToWrap is present or not.
Input(syntax, abbreviation, rangeToReplace, textToWrap) ==
    [syntax |-> syntax, abbreviation |-> abbreviation,
     rangeToReplace |-> rangeToReplace, textToWrap |-> textToWrap]

\* Line 202: the inlineBreak profile option is forced.
InlineBreak(input) == input.textToWrap /\ ~IsSingleLine(input.rangeToReplace)

\* ExpandAbbr with a catch block that falls back to text instead of
\* returning nothing.
ExpandAbbrFallsBack(input, outcome) ==
    [engine |-> outcome,
     returned |-> IF outcome = "raise" THEN "text" ELSE outcome,
     abbreviation |-> input.abbreviation,
     inlineBreak |-> InlineBreak(input),
     placeholderStripped |-> input.textToWrap /\ outcome \in {"empty", "line"},
     notice |-> IF outcome = "raise" THEN <<"Failed to expand abbreviation">> ELSE <<>>]

\* expandAbbr(input), lines 195-221, for one outcome of the engine: what the
\* engine did, the returned text ("none" is undefined), the abbreviation and
\* the inlineBreak option it was expanded with, whether the placeholder's
\* whitespace was stripped (line 212), and the notice shown.
ExpandAbbr(input, outcome) ==
    [engine |-> outcome,
     returned |-> IF outcome = "raise" THEN "none" ELSE outcome,
     abbreviation |-> input.abbreviation,
     inlineBreak |-> InlineBreak(input),
     placeholderStripped |-> input.textToWrap /\ outcome \in {"empty", "line"},
     notice |-> IF outcome = "raise" THEN <<"Failed to expand abbreviation">> ELSE <<>>]

\* if (expandedText), lines 172 and 187
HasText(expanded) == expanded.returned \in {"text", "line", "lines"}

\* ------------------------------------------------ expandAbbreviationInRange
\* One editor.insertSnippet(snippet, target) call: the snippet, the target
\* (ranges; multi tells an array of ranges from a single Range) and the state
\* of the thenable it returned.
InsertCall(expanded, ranges, multi) ==
    [snippet |-> expanded, ranges |-> ranges, multi |-> multi, state |-> "pending"]

\* Lines 170-175: expandAbbr for every input, in order.
ExpandEach(expandAbbrList, outcomes) ==
    [i \in 1..Len(expandAbbrList) |-> ExpandAbbr(expandAbbrList[i], outcomes[i])]

\* InsertEach without the test of line 172: an insertion for every input.
InsertEachUnchecked(expandAbbrList, expanded, i) ==
    [k \in 1..(Len(expandAbbrList) - i + 1) |->
        InsertCall(expanded[k + i - 1],
                   <<expandAbbrList[k + i - 1].rangeToReplace>>, FALSE)]

RECURSIVE InsertEach(_, _, _)
\* Lines 172-174: one single-range insertSnippet for every input from the
\* i-th on whose expansion gave text.
InsertEach(expandAbbrList, expanded, i) ==
    IF i > Len(expandAbbrList) THEN <<>>
    ELSE (IF HasText(expanded[i])
          THEN <<InsertCall(expanded[i], <<expandAbbrList[i].rangeToReplace>>, FALSE)>>
          ELSE <<>>)
         \o InsertEach(expandAbbrList, expanded, i + 1)

RECURSIVE NoticesOf(_)
\* The notices of a sequence of expandAbbr calls, in order.
NoticesOf(expanded) ==
    IF Len(expanded) = 0 THEN <<>>
    ELSE expanded[1].notice \o NoticesOf(Tail(expanded))

\* AllRanges that keeps only the range of the first input.
AllRangesFirstOnly(expandAbbrList) ==
    <<expandAbbrList[1].rangeToReplace>>

\* Lines 184-186: a fresh Range with the same coordinates for every input.
AllRanges(expandAbbrList) ==
    [i \in 1..Len(expandAbbrList) |->
        Rng(Pos(expandAbbrList[i].rangeToReplace.start.line,
                expandAbbrList[i].rangeToReplace.start.character),
            Pos(expandAbbrList[i].rangeToReplace.end.line,
                expandAbbrList[i].rangeToReplace.end.character))]

\* Line 176: Promise.all(insertPromises).then(() => true) rejects as soon as
\* one promise rejects and is fulfilled with true once all are fulfilled.
PromiseAllThenTrue(insertCalls) ==
    IF \E i \in 1..Len(insertCalls) : insertCalls[i].state = "rejected"
    THEN "rejected"
    ELSE IF \A i \in 1..Len(insertCalls) :
                insertCalls[i].state \in {"applied", "notApplied"}
    THEN "true"
    ELSE "pending"

\* Line 188: the thenable of the one insertSnippet call is returned as is.
InsertThenable(insertCalls) ==
    CASE insertCalls[1].state = "pending" -> "pending"
      [] insertCalls[1].state = "applied" -> "true"
      [] insertCalls[1].state = "notApplied" -> "false"
      [] insertCalls[1].state = "rejected" -> "rejected"

\* What the thenable returned by expandAbbreviationInRange has settled to,
\* given the insertSnippet calls it issued; "undefined" when it returned
\* nothing (lines 162 and 187-190).
Resolution(insertCalls, insertSameSnippet, settledBefore) ==
    IF settledBefore # "pending" THEN settledBefore
    ELSE IF ~insertSameSnippet THEN PromiseAllThenTrue(insertCalls)
    ELSE InsertThenable(insertCalls)

\* expandAbbreviationInRange(editor, expandAbbrList, insertSameSnippet),
\* lines 160-190, up to its return; outcomes[i] is what the engine does when
\* called for the i-th input.
ExpandAbbreviationInRange(expandAbbrList, insertSameSnippet, outcomes) ==
    IF Len(expandAbbrList) = 0
    THEN [expandCalls |-> <<>>, insertCalls |-> <<>>, notices |-> <<>>,
          result |-> "undefined"]
    ELSE IF ~insertSameSnippet
    THEN LET expanded == ExpandEach(expandAbbrList, outcomes)
             inserts == InsertEach(expandAbbrList, expanded, 1)
         IN [expandCalls |-> expanded, insertCalls |-> inserts,
             notices |-> NoticesOf(expanded),
             result |-> PromiseAllThenTrue(inserts)]
    ELSE LET expandedText == ExpandAbbr(expandAbbrList[1], outcomes[1])
             allRanges == AllRanges(expandAbbrList)
         IN IF HasText(expandedText)
            THEN [expandCalls |-> <<expandedText>>,
                  insertCalls |-> <<InsertCall(expandedText, allRanges, TRUE)>>,
                  notices |-> expandedText.notice,
                  result |-> "pending"]
            ELSE [expandCalls |-> <<expandedText>>, insertCalls |-> <<>>,
                  notices |-> expandedText.notice,
                  result |-> "undefined"]

\* ------------------------------------------------------ expandAbbreviation
\* Nodes getNode(rootNode, position) returns in the command: none, a rule with
\* a one-line selector, a rule nested in a rule with a two-line selector, a
\* property, and an element with a closing tag.
SampleNodes ==
    {NoNode,
     [NoNode EXCEPT !.present = TRUE, !.type = "rule",
         !.selectorToken = [present |-> TRUE, start |-> Pos(0, 0), end |-> Pos(0, 1)]],
     [NoNode EXCEPT !.present = TRUE, !.type = "rule", !.parent = "rule",
         !.selectorToken = [present |-> TRUE, start |-> Pos(0, 0), end |-> Pos(1, 0)]],
     [NoNode EXCEPT !.present = TRUE, !.type = "property", !.parent = "rule"],
     [NoNode EXCEPT !.present = TRUE, !.type = "tag",
         !.open = [present |-> TRUE, start |-> Pos(0, 0), end |-> Pos(0, 1)],
         !.close = [present |-> TRUE, start |-> Pos(1, 0), end |-> Pos(1, 1)]]}

\* isAbbreviationValid(syntax, abbreviation) of vscode-emmet-helper, line 93:
\* an empty abbreviation is never valid; for the others accepted is the
\* helper's verdict.
IsAbbreviationValid(syntax, abbreviation, accepted) ==
    abbreviation # <<>> /\ accepted

\* Lines 103-107: firstAbbreviation and allAbbreviationsSame after a request
\* with this abbreviation is accepted. <<>> is a falsy firstAbbreviation
\* (undefined or the empty string).
NextFirstAbbreviation(firstAbbreviation, abbreviation) ==
    IF firstAbbreviation = <<>> THEN abbreviation ELSE firstAbbreviation

\* NextAllAbbreviationsSame that forgets an earlier difference: the flag is
\* the comparison of the latest abbreviation with the first.
NextAllSameLatestOnly(firstAbbreviation, allSame, abbreviation) ==
    IF firstAbbreviation = <<>> THEN allSame
    ELSE firstAbbreviation = abbreviation

NextAllAbbreviationsSame(firstAbbreviation, allSame, abbreviation) ==
    IF firstAbbreviation = <<>> THEN allSame
    ELSE IF allSame /\ firstAbbreviation # abbreviation THEN FALSE
    ELSE allSame

\* ---------------------------------------------------- wrapWithAbbreviation
\* \s of the regular expression at line 40 and of String.trim, over the
\* characters of WrapDocs.
WhiteSpace == {" "}

\* Documents the wrap command is run on: a line of two blanks above a line
\* with a word.
WrapDocs == { << <<" ", " ">>, <<"a">> >> }

RECURSIVE LeadingWhiteSpace(_)
\* firstLineOfSelection.match(/^(\s*)/)[1].length, lines 40-41
LeadingWhiteSpace(text) ==
    IF Len(text) = 0 \/ text[1] \notin WhiteSpace THEN 0
    ELSE 1 + LeadingWhiteSpace(Tail(text))

RECURSIVE TrimEnd(_)
\* The text without the whitespace that ends it.
TrimEnd(text) ==
    IF Len(text) = 0 \/ text[Len(text)] \notin WhiteSpace THEN text
    ELSE TrimEnd(SubSeq(text, 1, Len(text) - 1))

\* abbreviation.trim(), line 29
Trim(text) ==
    TrimEnd(SubSeq(text, LeadingWhiteSpace(text) + 1, Len(text)))

\* new vscode.Range(startLine, startCharacter, endLine, endCharacter), lines
\* 36 and 43: the constructor swaps the two positions when the first is not
\* before or equal to the second.
NewRange(start, end) ==
    IF IsBefore(end, start) THEN Rng(end, start) ELSE Rng(start, end)

\* Lines 34-37: the selection's range, or the whole line of an empty one.
RangeOfSelection(doc, selection) ==
    LET rangeToReplace == SelRange(selection)
    IN IF IsEmpty(rangeToReplace)
       THEN NewRange(Pos(rangeToReplace.start.line, 0),
                     Pos(rangeToReplace.start.line,
                         Len(LineAt(doc, rangeToReplace.start.line))))
       ELSE rangeToReplace

\* Lines 39-41: the leading whitespace of the line of the range's start,
\* counted from the start's column to the end of that line.
PreceedingWhiteSpace(doc, rangeToReplace) ==
    LET line == LineAt(doc, rangeToReplace.start.line)
        firstLineOfSelection ==
            SubSeq(line, rangeToReplace.start.character + 1, Len(line))
    IN LeadingWhiteSpace(firstLineOfSelection)

\* Line 43: the two positions handed to the Range constructor.
TrimmedStart(doc, rangeToReplace) ==
    Pos(rangeToReplace.start.line,
        rangeToReplace.start.character + PreceedingWhiteSpace(doc, rangeToReplace))

TrimmedEnd(doc, rangeToReplace) ==
    Pos(rangeToReplace.end.line, rangeToReplace.end.character)

\* Lines 34-43: the range the wrap command replaces for a selection.
WrapRange(doc, selection) ==
    LET rangeToReplace == RangeOfSelection(doc, selection)
    IN NewRange(TrimmedStart(doc, rangeToReplace), TrimmedEnd(doc, rangeToReplace))

\* The abbreviation promise of line 26: not made, pending (the input box is
\* open) or settled; a settled promise holds a text or undefined (given is
\* FALSE: the input box was dismissed); accepted is isAbbreviationValid's
\* verdict on the text.
NoPromise == [state |-> "none", given |-> FALSE, text |-> <<>>, accepted |-> FALSE]

Pending == [NoPromise EXCEPT !.state = "pending"]

Settled(given, text, accepted) ==
    [state |-> "settled", given |-> given, text |-> text, accepted |-> accepted]

\* What the user can leave the input box with, or args['abbreviation'] hold.
AbbreviationTexts == {<<>>, <<" ">>, <<"a">>, <<" ", "a">>}

\* PassesGate without the trim of line 29.
PassesGateUntrimmed(dialect, promise) ==
    /\ promise.given
    /\ promise.text # <<>>
    /\ IsAbbreviationValid(dialect, promise.text, promise.accepted)

\* Line 29, negated: the abbreviation is there, is not empty, is not blank,
\* and is valid.
PassesGate(dialect, promise) ==
    /\ promise.given
    /\ promise.text # <<>>
    /\ Trim(promise.text) # <<>>
    /\ IsAbbreviationValid(dialect, promise.text, promise.accepted)

\* What one pass of the forEach callback of lines 33-45 has done: the
\* selection, the two positions computed at line 43, and the request pushed.
WrapVisit(selection, start, end, pushed) ==
    [selection |-> selection, start |-> start, end |-> end, pushed |-> pushed]

\* ------------------------------------------------------------- variables
VARIABLES
    vNode,      \* SpecValid: the currentNode argument
    vSyntax,    \* SpecValid: the syntax argument
    vPosition,  \* SpecValid: the position argument
    vResult,    \* SpecValid: "unset" before the call, then "true" / "false"
    pc,         \* where the command is: "start", "loop" (the forEach of line
                \* 90), "called" (expandAbbreviationInRange has returned),
                \* "aborted" (an early return), "threw"
    document,   \* editor.document
    remaining,  \* selections of editor.selections not yet visited
    syntax,     \* line 52
    abbreviationList,       \* line 64
    firstAbbreviation,      \* line 65
    allAbbreviationsSame,   \* line 66
    notices,    \* the messages shown, in order
    expandCalls,    \* the expandAbbr calls made, in order
    insertCalls,    \* the editor.insertSnippet calls issued, in order
    result,     \* what the command returned: "none" while it runs,
                \* "undefined", "threw", or the state of the returned
                \* thenable: "pending", "true", "false", "rejected"
    visited,    \* SpecLoop, SpecWrap: what happened at each selection visited
                \* so far
    abbreviationPromise,    \* SpecWrap: line 26
    syntaxCall,         \* SpecSyntax: a call of getSyntaxFromArgs
    abbreviationCall    \* SpecLocate: a call of getAbbreviation

validVars == <<vNode, vSyntax, vPosition, vResult>>

commandVars ==
    <<pc, document, remaining, syntax, abbreviationList, firstAbbreviation,
      allAbbreviationsSame, notices, expandCalls, insertCalls, result>>

traceVars == <<visited, abbreviationPromise>>

callVars == <<syntaxCall, abbreviationCall>>

vars == <<validVars, commandVars, traceVars, callVars>>

\* The command's variables before the command runs (lines 64-66 included).
CommandIdle ==
    /\ pc = "start"
    /\ syntax = ""
    /\ abbreviationList = <<>>
    /\ firstAbbreviation = <<>>
    /\ allAbbreviationsSame = TRUE
    /\ notices = <<>>
    /\ expandCalls = <<>>
    /\ insertCalls = <<>>
    /\ result = "none"
    /\ visited = <<>>
    /\ abbreviationPromise = NoPromise

ValidIdle ==
    /\ vNode = NoNode
    /\ vSyntax = "html"
    /\ vPosition = Pos(0, 0)
    /\ vResult = "unset"

\* A call of getSyntaxFromArgs: its argument, what it reads (the active
\* document's language, the mapping table, the exclusion list) and, once
\* called, what it returned.
SyntaxCall(args, languageId, mappedModes, excludedLanguages) ==
    [called |-> FALSE, args |-> args, languageId |-> languageId,
     mappedModes |-> mappedModes, excludedLanguages |-> excludedLanguages,
     returned |-> ""]

\* A call of getAbbreviation: its arguments (the document is the editor's),
\* what extractAbbreviation would return at the position and, once called,
\* what it returned.
AbbreviationCall(selection, position, isHtml, extracted) ==
    [called |-> FALSE, selection |-> selection, position |-> position,
     isHtml |-> isHtml, extracted |-> extracted, returned |-> NotLocated]

SyntaxCallIdle == syntaxCall = SyntaxCall(NoArgs, "html", NoMapping, {})

AbbreviationCallIdle ==
    abbreviationCall =
        AbbreviationCall(Sel(Pos(0, 0), Pos(0, 0)), Pos(0, 0), FALSE, NotLocated)

CallIdle == SyntaxCallIdle /\ AbbreviationCallIdle

\* -------------------------------------------------------------- SpecValid
InitValid ==
    /\ CallIdle
    /\ vNode \in Nodes
    /\ vSyntax \in Syntaxes
    /\ vPosition \in Positions
    /\ vResult = "unset"
    /\ CommandIdle
    /\ document = << <<>> >>
    /\ remaining = 0

\* One call of isValidLocationForEmmetAbbreviation on the chosen arguments.
Validate ==
    /\ vResult = "unset"
    /\ vResult' = IF IsValidLocationForEmmetAbbreviation(vNode, vSyntax, vPosition)
                  THEN "true" ELSE "false"
    /\ UNCHANGED <<vNode, vSyntax, vPosition, commandVars, traceVars, callVars>>

NextValid == Validate

SpecValid == InitValid /\ [][NextValid]_vars

\* -------------------------------------------------------------------- Spec
\* The editor holds a document and one to MaxSel selections.
Init ==
    /\ CallIdle
    /\ ValidIdle
    /\ CommandIdle
    /\ document \in Docs
    /\ remaining \in 1..MaxSel

\* expandAbbreviation(args), lines 51-66: the dialect, the validation gate and
\* the parse of the document.
ExpandAbbreviationBegin ==
    /\ pc = "start"
    /\ \E editorActive \in BOOLEAN, args \in ArgsChoices, languageId \in Languages,
          mappedModes \in MappedModesChoices, excludedLanguages \in SUBSET Languages,
          validated \in BOOLEAN, parsed \in BOOLEAN :
        LET resolved == IF editorActive
                        THEN GetSyntaxFromArgs(args, languageId, mappedModes,
                                               excludedLanguages)
                        ELSE ""
            goesOn == resolved # "" /\ validated /\ parsed
        IN /\ syntax' = resolved
           /\ notices' = IF editorActive THEN notices
                         ELSE Append(notices, "No editor is active.")
           /\ pc' = IF goesOn THEN "loop" ELSE "aborted"
           /\ result' = IF goesOn THEN "none" ELSE "undefined"
    /\ UNCHANGED <<validVars, callVars, traceVars, document, remaining, abbreviationList,
                   firstAbbreviation, allAbbreviationsSame, expandCalls, insertCalls>>

\* What one pass of the forEach callback, lines 90-110, has done: what
\* getAbbreviation returned (line 92), the helper's verdict on the
\* abbreviation (line 93), whether the position is a valid expansion location
\* for the node getNode returns there (lines 98-99), and the notices shown and
\* the requests pushed by this pass.
Visit(got, valid, validLocation, shown, pushed) ==
    [got |-> got, valid |-> valid, validLocation |-> validLocation,
     shown |-> shown, pushed |-> pushed]

\* PassVerdict without the validity check of lines 93-96.
PassVerdictLocationOnly(valid, validLocation) ==
    IF ~validLocation THEN "misplaced" ELSE "accepted"

\* Lines 93-101: what becomes of a cursor whose abbreviation was located: the
\* validity check comes first, the location check second.
PassVerdict(valid, validLocation) ==
    IF ~valid THEN "invalid"
    ELSE IF ~validLocation THEN "misplaced"
    ELSE "accepted"

\* One pass of the forEach callback, lines 90-110, on the next selection;
\* traced tells whether the pass is recorded in visited.
SelectionStep(traced) ==
    /\ pc = "loop"
    /\ remaining > 0
    /\ \E selection \in Selections(document), accepted \in BOOLEAN,
          currentNode \in SampleNodes :
        LET position == IF IsReversed(selection) THEN selection.anchor
                        ELSE selection.active
        IN \E extracted \in ExtractAbbreviationResults(document, position) :
           LET got == GetAbbreviation(document, selection, position,
                                      syntax = "html", extracted)
               abbreviation == got.abbreviation
               valid == IsAbbreviationValid(syntax, abbreviation, accepted)
               validLocation ==
                   IsValidLocationForEmmetAbbreviation(currentNode, syntax, position)
           IN /\ IF ~got.found
                 THEN \* line 92 destructures undefined: a TypeError leaves the
                      \* command
                      /\ pc' = "threw"
                      /\ result' = "threw"
                      /\ UNCHANGED <<remaining, abbreviationList, firstAbbreviation,
                                     allAbbreviationsSame, notices>>
                 ELSE IF PassVerdict(valid, validLocation) = "invalid"
                 THEN /\ notices' = Append(notices, "Emmet: Invalid abbreviation")
                      /\ remaining' = remaining - 1
                      /\ UNCHANGED <<pc, result, abbreviationList, firstAbbreviation,
                                     allAbbreviationsSame>>
                 ELSE IF PassVerdict(valid, validLocation) = "misplaced"
                 THEN /\ remaining' = remaining - 1
                      /\ UNCHANGED <<pc, result, abbreviationList, firstAbbreviation,
                                     allAbbreviationsSame, notices>>
                 ELSE /\ firstAbbreviation' =
                             NextFirstAbbreviation(firstAbbreviation, abbreviation)
                      /\ allAbbreviationsSame' =
                             NextAllAbbreviationsSame(firstAbbreviation,
                                                      allAbbreviationsSame,
                                                      abbreviation)
                      /\ abbreviationList' =
                             Append(abbreviationList,
                                    Input(syntax, abbreviation, got.rangeToReplace,
                                          FALSE))
                      /\ remaining' = remaining - 1
                      /\ UNCHANGED <<pc, result, notices>>
              /\ visited' =
                     IF traced
                     THEN Append(visited,
                                 Visit(got, valid, validLocation,
                                       SubSeq(notices', Len(notices) + 1, Len(notices')),
                                       SubSeq(abbreviationList',
                                              Len(abbreviationList) + 1,
                                              Len(abbreviationList'))))
                     ELSE visited
    /\ UNCHANGED <<validVars, callVars, document, syntax, expandCalls, insertCalls,
                   abbreviationPromise>>

ExpandAbbreviationSelection == SelectionStep(FALSE)

\* Line 112: expandAbbreviationInRange(editor, abbreviationList,
\* allAbbreviationsSame), after the last selection.
ExpandAbbreviationCall ==
    /\ pc = "loop"
    /\ remaining = 0
    /\ \E outcomes \in [1..Len(abbreviationList) -> EngineOutcomes(FALSE)] :
        LET r == ExpandAbbreviationInRange(abbreviationList, allAbbreviationsSame,
                                           outcomes)
        IN /\ expandCalls' = r.expandCalls
           /\ insertCalls' = r.insertCalls
           /\ notices' = notices \o r.notices
           /\ result' = r.result
    /\ pc' = "called"
    /\ UNCHANGED <<validVars, callVars, traceVars, document, remaining, syntax,
                   abbreviationList, firstAbbreviation, allAbbreviationsSame>>

\* The editor settles one pending insertSnippet call: the edit is applied
\* (true), not applied (false), or the call fails (the thenable rejects).
InsertSnippetSettles ==
    /\ pc = "called"
    /\ \E i \in 1..Len(insertCalls), outcome \in {"applied", "notApplied", "rejected"} :
        /\ insertCalls[i].state = "pending"
        /\ insertCalls' = [insertCalls EXCEPT ![i].state = outcome]
        /\ result' = Resolution(insertCalls', allAbbreviationsSame, result)
    /\ UNCHANGED <<validVars, callVars, traceVars, pc, document, remaining, syntax,
                   abbreviationList, firstAbbreviation, allAbbreviationsSame,
                   notices, expandCalls>>

Next ==
    \/ ExpandAbbreviationBegin
    \/ ExpandAbbreviationSelection
    \/ ExpandAbbreviationCall
    \/ InsertSnippetSettles

Spec == Init /\ [][Next]_vars

\* ---------------------------------------------------------------- SpecLoop
\* The command with every pass of the loop recorded, up to line 112, where
\* abbreviationList and allAbbreviationsSame are handed over as they are.
ExpandAbbreviationSelectionTraced == SelectionStep(TRUE)

InitLoop ==
    /\ CallIdle
    /\ ValidIdle
    /\ CommandIdle
    /\ document \in Docs
    /\ remaining \in 1..MaxTraced

NextLoop ==
    \/ ExpandAbbreviationBegin
    \/ ExpandAbbreviationSelectionTraced

SpecLoop == InitLoop /\ [][NextLoop]_vars

\* --------------------------------------------------------------- SpecWrap
\* The editor holds a document and one to MaxTraced selections.
InitWrap ==
    /\ CallIdle
    /\ ValidIdle
    /\ CommandIdle
    /\ document \in WrapDocs
    /\ remaining \in 1..MaxTraced

\* wrapWithAbbreviation(args), lines 19-26: the dialect, the validation gate
\* and the abbreviation promise, settled at once with args['abbreviation']
\* when that is truthy, and the input box otherwise.
WrapBegin ==
    /\ pc = "start"
    /\ \E editorActive \in BOOLEAN, args \in ArgsChoices, languageId \in Languages,
          mappedModes \in MappedModesChoices, excludedLanguages \in SUBSET Languages,
          validated \in BOOLEAN, argsAbbreviation \in AbbreviationTexts,
          accepted \in BOOLEAN :
        LET resolved == IF editorActive
                        THEN GetSyntaxFromArgs(args, languageId, mappedModes,
                                               excludedLanguages)
                        ELSE ""
            goesOn == resolved # "" /\ validated
        IN /\ syntax' = resolved
           /\ notices' = IF editorActive THEN notices
                         ELSE Append(notices, "No editor is active.")
           /\ pc' = IF goesOn THEN "prompt" ELSE "aborted"
           /\ result' = IF goesOn THEN "pending" ELSE "undefined"
           /\ abbreviationPromise' =
                  IF ~goesOn THEN abbreviationPromise
                  ELSE IF args.isObject /\ argsAbbreviation # <<>>
                  THEN Settled(TRUE, argsAbbreviation, accepted)
                  ELSE Pending
    /\ UNCHANGED <<validVars, callVars, visited, document, remaining, abbreviationList,
                   firstAbbreviation, allAbbreviationsSame, expandCalls, insertCalls>>

\* vscode.window.showInputBox, line 26: the user enters a text, or dismisses
\* the box and the promise settles to undefined.
ShowInputBoxSettles ==
    /\ pc = "prompt"
    /\ abbreviationPromise.state = "pending"
    /\ \/ abbreviationPromise' = Settled(FALSE, <<>>, FALSE)
       \/ \E text \in AbbreviationTexts, accepted \in BOOLEAN :
              abbreviationPromise' = Settled(TRUE, text, accepted)
    /\ UNCHANGED <<validVars, callVars, commandVars, visited>>

\* Lines 28-31: the callback of the promise reaches the forEach only with an
\* abbreviation that passes the gate of line 29.
WrapThen ==
    /\ pc = "prompt"
    /\ abbreviationPromise.state = "settled"
    /\ IF PassesGate(syntax, abbreviationPromise)
       THEN pc' = "wrap" /\ UNCHANGED result
       ELSE pc' = "aborted" /\ result' = "undefined"
    /\ UNCHANGED <<validVars, callVars, traceVars, document, remaining, syntax,
                   abbreviationList, firstAbbreviation, allAbbreviationsSame,
                   notices, expandCalls, insertCalls>>

\* One pass of the forEach callback, lines 33-45, on the next selection.
WrapSelection ==
    /\ pc = "wrap"
    /\ remaining > 0
    /\ \E selection \in Selections(document) :
        LET rangeToReplace == RangeOfSelection(document, selection)
            request == Input(syntax, abbreviationPromise.text,
                             WrapRange(document, selection), TRUE)
        IN /\ abbreviationList' = Append(abbreviationList, request)
           /\ visited' = Append(visited,
                                WrapVisit(selection,
                                          TrimmedStart(document, rangeToReplace),
                                          TrimmedEnd(document, rangeToReplace),
                                          request))
    /\ remaining' = remaining - 1
    /\ UNCHANGED <<validVars, callVars, abbreviationPromise, pc, document, syntax,
                   firstAbbreviation, allAbbreviationsSame, notices, expandCalls,
                   insertCalls, result>>

\* Line 47: expandAbbreviationInRange(editor, expandAbbrList, true), after the
\* last selection; the engine is called once, for the first request.
WrapCall ==
    /\ pc = "wrap"
    /\ remaining = 0
    /\ \E outcome \in EngineOutcomes(TRUE) :
        LET r == ExpandAbbreviationInRange(
                     abbreviationList, TRUE,
                     [i \in 1..Len(abbreviationList) |-> outcome])
        IN /\ expandCalls' = r.expandCalls
           /\ insertCalls' = r.insertCalls
           /\ notices' = notices \o r.notices
           /\ result' = r.result
    /\ pc' = "called"
    /\ UNCHANGED <<validVars, callVars, traceVars, document, remaining, syntax,
                   abbreviationList, firstAbbreviation, allAbbreviationsSame>>

NextWrap ==
    \/ WrapBegin
    \/ ShowInputBoxSettles
    \/ WrapThen
    \/ WrapSelection
    \/ WrapCall
    \/ InsertSnippetSettles

SpecWrap == InitWrap /\ [][NextWrap]_vars

\* ------------------------------------------------------------- SpecSyntax
\* Every argument and every configuration getSyntaxFromArgs can meet, with an
\* active editor.
InitSyntax ==
    /\ ValidIdle
    /\ CommandIdle
    /\ document = << <<>> >>
    /\ remaining = 0
    /\ AbbreviationCallIdle
    /\ \E args \in ArgsChoices, languageId \in Languages,
          mappedModes \in MappedModesChoices, excludedLanguages \in SUBSET Languages :
           syntaxCall = SyntaxCall(args, languageId, mappedModes, excludedLanguages)

\* One call of getSyntaxFromArgs, lines 223-240.
GetSyntax ==
    /\ ~syntaxCall.called
    /\ syntaxCall' =
           [syntaxCall EXCEPT
               !.called = TRUE,
               !.returned = GetSyntaxFromArgs(syntaxCall.args, syntaxCall.languageId,
                                              syntaxCall.mappedModes,
                                              syntaxCall.excludedLanguages)]
    /\ UNCHANGED <<validVars, commandVars, traceVars, abbreviationCall>>

NextSyntax == GetSyntax

SpecSyntax == InitSyntax /\ [][NextSyntax]_vars

\* ------------------------------------------------------------- SpecLocate
\* Every selection of a document, with the position line 91 takes for it,
\* either dialect kind, and what extractAbbreviation would return there.
InitLocate ==
    /\ ValidIdle
    /\ CommandIdle
    /\ SyntaxCallIdle
    /\ document \in LocateDocs
    /\ remaining = 0
    /\ \E selection \in Selections(document), isHtml \in BOOLEAN :
        LET position == IF IsReversed(selection) THEN selection.anchor
                        ELSE selection.active
        IN \E extracted \in ExtractAbbreviationResults(document, position) :
              abbreviationCall =
                  AbbreviationCall(selection, position, isHtml, extracted)

\* One call of getAbbreviation, lines 68-88.
Locate ==
    /\ ~abbreviationCall.called
    /\ abbreviationCall' =
           [abbreviationCall EXCEPT
               !.called = TRUE,
               !.returned = GetAbbreviation(document, abbreviationCall.selection,
                                            abbreviationCall.position,
                                            abbreviationCall.isHtml,
                                            abbreviationCall.extracted)]
    /\ UNCHANGED <<validVars, commandVars, traceVars, syntaxCall>>

NextLocate == Locate

SpecLocate == InitLocate /\ [][NextLocate]_vars

\* ------------------------------------------- location validator: claims
Called == vResult # "unset"

RuleCase ==
    /\ Called
    /\ IsStyleSheet(vSyntax)
    /\ vNode.present
    /\ vNode.type = "rule"

\* The nested multi-line-selector exception applies to vNode.
NestedException ==
    /\ vNode.parent = "rule"
    /\ vNode.selectorToken.present
    /\ vNode.selectorToken.start.line < vNode.selectorToken.end.line

ElementCase ==
    /\ Called
    /\ ~IsStyleSheet(vSyntax)
    /\ vNode.present
    /\ vNode.type = "tag"

\* C1 (as stated): with no enclosing node the validator answers true for every
\* stylesheet dialect and false for the markup dialect, at every position.
C1_NoNodeStylesheetTrueMarkupFalse ==
    (Called /\ ~vNode.present) =>
        (vResult = "true" <=> vSyntax \in {"css", "scss"})

\* C1 (amended): with no enclosing node the validator answers false for every
\* stylesheet dialect and true for the markup dialect, at every position.
C1_NoNodeStylesheetFalseMarkupTrue ==
    (Called /\ ~vNode.present) =>
        /\ vSyntax \in {"css", "scss"} => vResult = "false"
        /\ vSyntax = "html" => vResult = "true"

C1_Witness ==
    /\ Called /\ ~vNode.present
    /\ vSyntax = "css" /\ vResult = "false"
    /\ vPosition = Pos(MaxLine, MaxCol)

\* C2: for a stylesheet rule outside the nested multi-line-selector exception
\* the validator answers true exactly when the position is strictly after the
\* end of the selector span; a rule without a selector span is never valid.
C2_RuleBodyBoundary ==
    (RuleCase /\ ~NestedException) =>
        /\ ~vNode.selectorToken.present => vResult = "false"
        /\ vNode.selectorToken.present =>
            LET e == vNode.selectorToken.end IN
            /\ vPosition = e => vResult = "false"
            /\ vPosition.line < e.line => vResult = "false"
            /\ (vPosition.line = e.line /\ vPosition.character < e.character)
                   => vResult = "false"
            /\ (vPosition.line = e.line /\ vPosition.character > e.character)
                   => vResult = "true"
            /\ vPosition.line > e.line => vResult = "true"

\* The column right after the selector end is valid.
C2_Witness ==
    /\ RuleCase /\ ~NestedException
    /\ vNode.selectorToken.present
    /\ vPosition.line = vNode.selectorToken.end.line
    /\ vPosition.character = vNode.selectorToken.end.character + 1
    /\ vResult = "true"

\* C3 (as stated): for a markup element with a closing counterpart the
\* validator answers true only strictly between the end of the opening tag and
\* the start of the closing tag, and false otherwise; with no closing
\* counterpart it answers false.
C3_ElementStrictlyInside ==
    ElementCase =>
        IF vNode.close.present
        THEN vResult = "true" <=>
                 /\ IsBefore(vNode.open.end, vPosition)
                 /\ IsBefore(vPosition, vNode.close.start)
        ELSE vResult = "false"

\* C3 (amended): for a markup element with a closing counterpart the validator
\* answers true exactly when the position is inside the inner span, the end of
\* the opening tag and the start of the closing tag included; with no closing
\* counterpart it answers false.
C3_ElementInsideInclusive ==
    ElementCase =>
        IF vNode.close.present
        THEN vResult = "true" <=>
                 /\ ~IsBefore(vPosition, vNode.open.end)
                 /\ ~IsBefore(vNode.close.start, vPosition)
        ELSE vResult = "false"

\* The cursor between an opening tag and the closing tag that follows it
\* directly, as in <a>|</a>.
C3_Witness ==
    /\ ElementCase /\ vNode.close.present
    /\ vNode.open.end = vNode.close.start
    /\ vPosition = vNode.open.end
    /\ vResult = "true"

\* C4: in a stylesheet, a rule nested in a rule whose selector span starts and
\* ends on different lines is valid at every position, and a node that is not
\* a rule is valid at every position.
C4_NestedMultiLineAndNonRule ==
    (Called /\ IsStyleSheet(vSyntax) /\ vNode.present) =>
        /\ (vNode.type = "rule" /\ NestedException) => vResult = "true"
        /\ vNode.type # "rule" => vResult = "true"

\* A position inside the multi-line selector of a nested rule is valid.
C4_Witness ==
    /\ RuleCase /\ NestedException
    /\ IsBefore(vPosition, vNode.selectorToken.end)
    /\ vResult = "true"

\* ------------------------------------------------ expand command: claims
\* expandAbbreviationInRange has been called with abbreviationList and
\* allAbbreviationsSame (line 112) and has returned.
InRangeCalled == pc = "called"

UniformPath == InRangeCalled /\ allAbbreviationsSame /\ Len(abbreviationList) > 0

NonUniformPath == InRangeCalled /\ ~allAbbreviationsSame

\* C5: whatever selections have been processed, the uniform flag is true
\* exactly when all requests of the list have the same abbreviation text.
C5_UniformFlagIffAllSame ==
    pc \in {"loop", "called"} =>
        (allAbbreviationsSame <=>
            \A i, j \in 1..Len(abbreviationList) :
                abbreviationList[i].abbreviation = abbreviationList[j].abbreviation)

\* Two requests with the same text on different ranges, and a cursor
\* dropped for an invalid abbreviation.
C5_Witness ==
    /\ InRangeCalled
    /\ Len(abbreviationList) = 2
    /\ abbreviationList[1].abbreviation = abbreviationList[2].abbreviation
    /\ abbreviationList[1].rangeToReplace # abbreviationList[2].rangeToReplace
    /\ allAbbreviationsSame
    /\ \E k \in 1..Len(notices) : notices[k] = "Emmet: Invalid abbreviation"

\* C6: on the uniform path with n >= 1 requests there is exactly one engine
\* call, for the first request, and when it yields text exactly one
\* insertSnippet call, whose target is the n replacement ranges in request
\* order with unchanged coordinates.
C6_UniformOneExpansionOneInsertion ==
    UniformPath =>
        /\ Len(expandCalls) = 1
        /\ expandCalls[1].abbreviation = abbreviationList[1].abbreviation
        /\ expandCalls[1].engine = "text" =>
            /\ Len(insertCalls) = 1
            /\ insertCalls[1].multi
            /\ insertCalls[1].snippet = expandCalls[1]
            /\ Len(insertCalls[1].ranges) = Len(abbreviationList)
            /\ \A i \in 1..Len(abbreviationList) :
                   insertCalls[1].ranges[i] = abbreviationList[i].rangeToReplace

\* Three cursors, not all on the same range, served by one insertion.
C6_Witness ==
    /\ UniformPath
    /\ Len(abbreviationList) = 3
    /\ abbreviationList[1].rangeToReplace # abbreviationList[2].rangeToReplace
    /\ Len(insertCalls) = 1
    /\ Len(insertCalls[1].ranges) = 3

\* The requests whose expansion produced text, and the k-th of them.
WithText == {i \in 1..Len(expandCalls) : expandCalls[i].engine = "text"}

KthWithText(k) ==
    CHOOSE i \in WithText : Cardinality({j \in WithText : j <= i}) = k

\* C7: on the non-uniform path with n requests there are exactly n engine
\* calls, one per request in order, and exactly one single-range insertSnippet
\* call, on the request's own range, for each request whose expansion produced
\* text; there is no multi-range insertion.
C7_NonUniformOnePerRequest ==
    NonUniformPath =>
        /\ Len(expandCalls) = Len(abbreviationList)
        /\ \A i \in 1..Len(abbreviationList) :
               expandCalls[i].abbreviation = abbreviationList[i].abbreviation
        /\ Len(insertCalls) = Cardinality(WithText)
        /\ \A k \in 1..Len(insertCalls) :
               /\ ~insertCalls[k].multi
               /\ insertCalls[k].ranges =
                      <<abbreviationList[KthWithText(k)].rangeToReplace>>
               /\ insertCalls[k].snippet = expandCalls[KthWithText(k)]

\* Three requests, the second of which fails to expand.
C7_Witness ==
    /\ NonUniformPath
    /\ Len(abbreviationList) = 3
    /\ expandCalls[2].engine = "raise"
    /\ Len(insertCalls) = 2
    /\ insertCalls[2].ranges = <<abbreviationList[3].rangeToReplace>>

\* C8: when the engine raises, expandAbbr shows the error notice and returns
\* no text; on the uniform path with that request as representative no
\* insertSnippet call is ever issued and the command returns nothing.
C8_EngineFailureNoEdit ==
    /\ \A i \in 1..Len(expandCalls) :
           expandCalls[i].engine = "raise" =>
               /\ expandCalls[i].returned = "none"
               /\ expandCalls[i].notice = <<"Failed to expand abbreviation">>
    /\ (UniformPath /\ expandCalls[1].engine = "raise") =>
           /\ insertCalls = <<>>
           /\ result = "undefined"
           /\ notices[Len(notices)] = "Failed to expand abbreviation"

\* A uniform batch of three ranges whose representative fails to expand.
C8_Witness ==
    /\ UniformPath
    /\ Len(abbreviationList) = 3
    /\ expandCalls[1].engine = "raise"

\* C9: for a non-empty request list the command resolves to true only if an
\* insertSnippet call was issued and applied.
C9_TrueOnlyIfEditApplied ==
    (InRangeCalled /\ Len(abbreviationList) > 0 /\ result = "true") =>
        \E k \in 1..Len(insertCalls) : insertCalls[k].state = "applied"

\* C10: on the non-uniform path the command does not complete, fulfilled or
\* rejected, while an insertion it issued is still pending.
C10_CompletesAfterAllInsertions ==
    (NonUniformPath /\ result \in {"true", "false", "rejected"}) =>
        \A k \in 1..Len(insertCalls) : insertCalls[k].state # "pending"

\* ------------------------------------------------- the loop: claims
RECURSIVE Survivors(_, _)
\* The requests of the cursors, in order, whose abbreviation is valid and
\* whose position is a valid expansion location.
Survivors(visits, dialect) ==
    IF Len(visits) = 0 THEN <<>>
    ELSE (IF visits[1].got.found /\ visits[1].valid /\ visits[1].validLocation
          THEN <<[syntax |-> dialect,
                  abbreviation |-> visits[1].got.abbreviation,
                  rangeToReplace |-> visits[1].got.rangeToReplace,
                  textToWrap |-> FALSE]>>
          ELSE <<>>)
         \o Survivors(Tail(visits), dialect)

\* C11: a cursor whose abbreviation is invalid is dropped with one error
\* notice and the pass goes on; after any number of passes the request list
\* is exactly the cursors, in selection order, whose abbreviation is valid and
\* whose position is a valid location, each selection giving at most one
\* request.
C11_ListIsValidCursorsInOrder ==
    /\ abbreviationList = Survivors(visited, syntax)
    /\ \A i \in 1..Len(visited) :
           /\ Len(visited[i].pushed) <= 1
           /\ (visited[i].got.found /\ ~visited[i].valid) =>
                  /\ visited[i].shown = <<"Emmet: Invalid abbreviation">>
                  /\ visited[i].pushed = <<>>
                  /\ (i = Len(visited) => pc = "loop")

\* An invalid first cursor, then a valid second one, which is the whole list
\* handed over at line 112.
C11_Witness ==
    /\ pc = "loop" /\ remaining = 0
    /\ Len(visited) = 2
    /\ ~visited[1].valid /\ visited[1].validLocation
    /\ visited[1].got.abbreviation # <<>>
    /\ visited[2].valid /\ visited[2].validLocation
    /\ Len(abbreviationList) = 1
    /\ notices = <<"Emmet: Invalid abbreviation">>

\* C12: a cursor whose position is not a valid expansion location is dropped
\* silently, whatever its abbreviation: no request and no notice for it.
C12_MisplacedCursorSilent ==
    \A i \in 1..Len(visited) :
        (visited[i].got.found /\ ~visited[i].validLocation) =>
            /\ visited[i].pushed = <<>>
            /\ visited[i].shown = <<>>

\* C14: the command never ends by an error thrown into the host.
C14_NeverThrows == pc # "threw" /\ result # "threw"

\* ------------------------------------------------- wrap command: claims
\* C13: every replacement range of a wrap that spans more than one line
\* receives a snippet expanded with inlineBreak forced, whatever the other
\* selections and their order.
C13_MultiLineRangeGetsInlineBreak ==
    \A i \in 1..Len(insertCalls) :
        \A k \in 1..Len(insertCalls[i].ranges) :
            (insertCalls[i].snippet.abbreviation = abbreviationPromise.text
             /\ abbreviationPromise.state = "settled"
             /\ ~IsSingleLine(insertCalls[i].ranges[k])) =>
                insertCalls[i].snippet.inlineBreak

\* C17: the start position computed for a request's range is never after the
\* end position computed for it, whatever the selection and the line.
C17_ComputedStartNotAfterEnd ==
    \A i \in 1..Len(visited) :
        abbreviationPromise.state = "settled" =>
            ~IsAfter(visited[i].start, visited[i].end)

\* The abbreviation promise settled without text or with an abbreviation the
\* validity check rejects, and the callback of line 28 has run.
SettledWithoutValidText ==
    /\ abbreviationPromise.state = "settled"
    /\ pc # "prompt"
    /\ \/ ~abbreviationPromise.given
       \/ Trim(abbreviationPromise.text) = <<>>
       \/ ~abbreviationPromise.accepted

\* C18: when the abbreviation promise settles without text (dismissed, empty
\* or blank) or with an invalid abbreviation, the wrap aborts: no request, no
\* engine call, no insertSnippet call.
C18_NoTextOrInvalidAborts ==
    SettledWithoutValidText =>
        /\ pc = "aborted"
        /\ result = "undefined"
        /\ abbreviationList = <<>>
        /\ visited = <<>>
        /\ expandCalls = <<>>
        /\ insertCalls = <<>>

\* The input box was left with a blank text that the validity check would
\* have accepted.
C18_Witness ==
    /\ SettledWithoutValidText
    /\ abbreviationPromise.given
    /\ abbreviationPromise.text = <<" ">>
    /\ abbreviationPromise.accepted
    /\ pc = "aborted"

\* C20: the range of each wrap request lies inside the selection when that
\* is not empty and inside the cursor's line when it is; the trimmed start is
\* never past the selection's end.
C20_RangeInsideDesignatedRegion ==
    \A i \in 1..Len(visited) :
        abbreviationPromise.state = "settled" =>
            LET selected == SelRange(visited[i].selection)
                range == visited[i].pushed.rangeToReplace
            IN IF IsEmpty(selected)
               THEN /\ range.start.line = selected.start.line
                    /\ range.end.line = selected.start.line
                    /\ range.end.character <=
                           Len(LineAt(document, selected.start.line))
               ELSE /\ IsBeforeOrEqual(selected.start, range.start)
                    /\ IsBeforeOrEqual(range.end, selected.end)
                    /\ IsBeforeOrEqual(visited[i].start, selected.end)

\* ------------------------------------------------ getSyntaxFromArgs: claims
\* The language getSyntaxFromArgs looks up: the one of args when given, the
\* active document's otherwise.
LookedUp ==
    IF syntaxCall.args.isObject /\ syntaxCall.args.language # ""
    THEN syntaxCall.args.language
    ELSE syntaxCall.languageId

\* The dialect lookup of a language through the mapping table, with the
\* call's exclusion list.
LookupOf(language) ==
    GetEmmetMode(IF syntaxCall.mappedModes[language] # ""
                 THEN syntaxCall.mappedModes[language] ELSE language,
                 syntaxCall.excludedLanguages)

ParentSupplied == syntaxCall.args.isObject /\ syntaxCall.args.parentMode # ""

\* C15: for a language in the exclusion list getSyntaxFromArgs returns no
\* dialect, whatever the mapping table and the parentMode.
C15_ExcludedLanguageNoDialect ==
    (syntaxCall.called /\ LookedUp \in syntaxCall.excludedLanguages) =>
        syntaxCall.returned = ""

\* C16: the language looked up is the one of args when given and the
\* document's otherwise; a dialect from the primary lookup is returned; when
\* there is none and a parentMode was supplied the result is the lookup of
\* the parent through the mapping table with the same exclusion list; when
\* both give nothing the result is none.
C16_LookupOrder ==
    syntaxCall.called =>
        /\ LookupOf(LookedUp) # "" => syntaxCall.returned = LookupOf(LookedUp)
        /\ (LookupOf(LookedUp) = "" /\ ParentSupplied) =>
               syntaxCall.returned = LookupOf(syntaxCall.args.parentMode)
        /\ (LookupOf(LookedUp) = "" /\ ~ParentSupplied) => syntaxCall.returned = ""

\* The primary lookup gives nothing (the language is excluded) and the
\* parent gives a dialect only through the mapping table.
C16_Witness ==
    /\ syntaxCall.called
    /\ LookupOf(LookedUp) = ""
    /\ ParentSupplied
    /\ syntaxCall.mappedModes[syntaxCall.args.parentMode] # ""
    /\ syntaxCall.args.parentMode \notin EmmetModes
    /\ syntaxCall.returned # ""

\* -------------------------------------------------- getAbbreviation: claims
\* The text of the cursor's line up to the cursor ends with '<' followed by
\* n word characters.
EndsWithOpenTag(n) ==
    LET line == LineAt(document, abbreviationCall.position.line)
        column == abbreviationCall.position.character
    IN /\ n >= 1
       /\ n < column
       /\ line[column - n] = "<"
       /\ \A k \in (column - n + 1)..column : line[k] \in WordChars

\* C19: with an empty selection and the markup dialect, when the line's text
\* up to the cursor ends with '<' and n >= 1 word characters the abbreviation
\* is that word and the range runs from column (cursor - n - 1) to the
\* cursor; with a non-empty selection the selection and its text are
\* returned, whatever the dialect.
C19_UnclosedTagAndSelection ==
    abbreviationCall.called =>
        LET selected == SelRange(abbreviationCall.selection)
            position == abbreviationCall.position
            line == LineAt(document, position.line)
        IN /\ (IsEmpty(selected) /\ abbreviationCall.isHtml) =>
                  \A n \in 1..Len(line) :
                      EndsWithOpenTag(n) =>
                          /\ abbreviationCall.returned.found
                          /\ abbreviationCall.returned.abbreviation =
                                 SubSeq(line, position.character - n + 1,
                                        position.character)
                          /\ abbreviationCall.returned.rangeToReplace =
                                 Rng(Pos(position.line, position.character - n - 1),
                                     position)
           /\ ~IsEmpty(selected) =>
                  /\ abbreviationCall.returned.found
                  /\ abbreviationCall.returned.rangeToReplace = selected
                  /\ abbreviationCall.returned.abbreviation =
                         GetText(document, selected)

\* The cursor is behind "<aa", and extractAbbreviation would have returned
\* something else.
C19_Witness ==
    /\ abbreviationCall.called
    /\ IsEmpty(SelRange(abbreviationCall.selection))
    /\ abbreviationCall.isHtml
    /\ EndsWithOpenTag(2)
    /\ abbreviationCall.returned.abbreviation = <<"a", "a">>
    /\ abbreviationCall.returned # abbreviationCall.extracted

====
